---- MODULE Spec2Model ----
(***************************************************************************)
(* Model of rpm-to-dockerfile's build orchestrator (main.go, buildImages   *)
(* and createDNFCache).  One coordinating goroutine (main) walks the       *)
(* directory tree, acquires a slot of a weighted semaphore per Dockerfile  *)
(* and launches one goroutine per Dockerfile; each goroutine runs          *)
(* "podman build", writes a build log, removes the image and releases its  *)
(* slot.  main returns right after the loop and the report, and a Go       *)
(* process ends (with all its goroutines) when main returns.               *)
(*                                                                         *)
(* The log files an earlier run left in the tree are never read by the     *)
(* program, except by the os.Stat of buildlog.fail under -rebuild, whose   *)
(* result is an input of that step.  The state therefore records what this *)
(* run did to each log file, and a file exists after the run according to  *)
(* Exists, for each content the tree can have had before it.  os.WriteFile *)
(* and os.Remove are modelled as succeeding; os.MkdirTemp, os.Lstat,       *)
(* directory listing and the external commands have nondeterministic       *)
(* outcomes.                                                               *)
(***************************************************************************)
EXTENDS Integers, Sequences, FiniteSets

\* ---------------------------------------------------------------- bounds
\* Largest number of directories holding a Dockerfile under -dir.
MaxCtx == 2

\* ------------------------------------------------------ program constants
\* dnf check-update: "updates are available" (main.go line 169).
UpdatesAvailable == 100

\* Values of -j that are tried: negative, zero, and 1 up to the largest number
\* of Dockerfiles (no run asks for more slots than it has Dockerfiles, so a
\* larger -j behaves as that one).
NValues == (0 - 1)..MaxCtx

\* What cmd.CombinedOutput() of the warm-up command can return: no error,
\* an *exec.ExitError with an exit code, or another error (podman missing).
CmdResults ==
    {[err |-> "nil", code |-> 0], [err |-> "other", code |-> 0]}
        \cup {[err |-> "ExitError", code |-> c] : c \in {1, UpdatesAvailable, 125}}

\* What this run did to a log file so far.
Untouched == "untouched" \* nothing: it is as the earlier run left it
Absent == "absent"       \* os.Stat found that it does not exist
Removed == "removed"     \* os.Remove deleted it
Written == "written"     \* os.WriteFile created or replaced it

\* The log files a directory can hold when the run starts.
OldLogs == [buildlog : BOOLEAN, buildlogfail : BOOLEAN]

VARIABLES
    parallelBuilds, \* -j flag
    flagRebuild,    \* -rebuild flag
    nDirs,          \* directories with a Dockerfile in the tree under -dir
    files,          \* per directory, what the run did to buildlog and buildlog.fail
    pc,             \* position of the main goroutine
    cmd,            \* createDNFCache's frame: the result of the warm-up command
    ret,            \* createDNFCache's frame: the value it returns
    cacheDir,       \* buildImages' cacheDir ("" when unset)
    exitStatus,     \* process exit status (-1 while running)
    dockerfiles,    \* the Dockerfiles collected by filepath.Walk
    idx,            \* position of the for loop in dockerfiles
    sem,            \* semaphore.Weighted: cur, the slots held
    ctr,            \* atomic counter
    failedBuilds,   \* the shared slice of failed Dockerfiles
    printed,        \* whether the report step ran
    summary,        \* what the report step printed
    images,         \* names of the podman images that exist
    task            \* per Dockerfile: the goroutine's position and locals

vars == <<parallelBuilds, flagRebuild, nDirs, files, pc, cmd, ret, cacheDir,
          exitStatus, dockerfiles, idx, sem, ctr, failedBuilds, printed, summary,
          images, task>>

Dirs == 1..nDirs

\* createDNFCache's frame when the function is not running, and the result of
\* a warm-up command that did not run.
NotRun == [err |-> "notrun", code |-> 0]
NoRet == [cacheDir |-> "", err |-> FALSE]

\* A goroutine that was not started.  localCtr is 0 until ctr.Add(1) ran;
\* rmi is the outcome of podman rmi: "no" (not run), "ok" or "failed".
NoTask == [pc |-> "none", localCtr |-> 0, buildErr |-> FALSE, hdr |-> <<>>, rmi |-> "no"]

\* Line 229: imageName := fmt.Sprintf("test-%d", localCtr).
ImageName(localCtr) == <<"test-", localCtr>>

\* The ascending sequence of the members of S (filepath.Walk visits in lexical order).
SortedSeq(S) ==
    CHOOSE s \in [1..Cardinality(S) -> S] :
        \A a, b \in 1..Cardinality(S) : a < b => s[a] < s[b]

Range(s) == {s[k] : k \in 1..Len(s)}

Init ==
    /\ parallelBuilds \in NValues
    /\ flagRebuild \in BOOLEAN
    /\ nDirs \in 0..MaxCtx
    /\ files = [d \in 1..nDirs |-> [buildlog |-> Untouched, buildlogfail |-> Untouched]]
    /\ pc = "createDNFCache"
    /\ cmd = NotRun
    /\ ret = NoRet
    /\ cacheDir = ""
    /\ exitStatus = -1
    /\ dockerfiles = <<>>
    /\ idx = 1
    /\ sem = 0
    /\ ctr = 0
    /\ failedBuilds = <<>>
    /\ printed = FALSE
    /\ summary = <<>>
    /\ images = {}
    /\ task = [d \in 1..nDirs |-> NoTask]

\* Whether log file f of directory d exists now, when old are the log files
\* the directory held before the run.
Exists(d, f, old) ==
    \/ files[d][f] = Written
    \/ files[d][f] = Untouched /\ old[f]

\* The contents directory d can have had before the run, given what os.Stat
\* and os.Remove found: a file seen absent was absent, a file removed existed.
OldOf(d) ==
    {old \in OldLogs :
        /\ files[d].buildlogfail = Absent => ~old.buildlogfail
        /\ files[d].buildlogfail = Removed => old.buildlogfail}

\* ------------------------------------------------------------ createDNFCache
\* createDNFCache without the special case of exit status 100: every error of
\* the warm-up command fails the provisioning.
createDNFCacheNo100(mkdirOK, res) ==
    IF ~mkdirOK \/ res.err # "nil"
    THEN [cacheDir |-> "", err |-> TRUE]
    ELSE [cacheDir |-> "DNF-CACHE", err |-> FALSE]

\* createDNFCache's return value, from the outcome of os.MkdirTemp and the
\* result of the warm-up command: <<cacheDir, err>>.
createDNFCache(mkdirOK, res) ==
    IF ~mkdirOK THEN [cacheDir |-> "", err |-> TRUE]
    ELSE IF res.err # "nil"
         THEN IF res.err = "ExitError" /\ res.code = UpdatesAvailable
              THEN [cacheDir |-> "DNF-CACHE", err |-> FALSE]
              ELSE [cacheDir |-> "", err |-> TRUE]
         ELSE [cacheDir |-> "DNF-CACHE", err |-> FALSE]

\* createDNFCache runs (lines 143-177): os.MkdirTemp, the warm-up command, and
\* the return value.  cmd is NotRun when MkdirTemp failed.
CreateDNFCacheRun ==
    /\ pc = "createDNFCache"
    /\ \E mkdirOK \in BOOLEAN, res \in CmdResults :
        /\ cmd' = IF mkdirOK THEN res ELSE NotRun
        /\ ret' = createDNFCache(mkdirOK, res)
    /\ pc' = "cacheReturned"
    /\ UNCHANGED <<parallelBuilds, flagRebuild, nDirs, files, cacheDir,
                   exitStatus, dockerfiles, idx, sem, ctr, failedBuilds, printed,
                   summary, images, task>>

\* buildImages going on to the walk whatever createDNFCache returned.
BuildImagesCacheErrIgnored ==
    /\ pc = "cacheReturned"
    /\ cacheDir' = ret.cacheDir
    /\ pc' = "walk"
    /\ cmd' = NotRun
    /\ ret' = NoRet
    /\ UNCHANGED <<parallelBuilds, flagRebuild, nDirs, files, exitStatus, dockerfiles,
                   idx, sem, ctr, failedBuilds, printed, summary, images, task>>

\* buildImages, lines 180-183, and main's panic(err) on a returned error
\* (lines 38-40).  createDNFCache's frame is gone.
BuildImagesCache ==
    /\ pc = "cacheReturned"
    /\ cacheDir' = ret.cacheDir
    /\ IF ret.err
       THEN pc' = "exited" /\ exitStatus' = 2
       ELSE pc' = "walk" /\ exitStatus' = exitStatus
    /\ cmd' = NotRun
    /\ ret' = NoRet
    /\ UNCHANGED <<parallelBuilds, flagRebuild, nDirs, files, dockerfiles, idx,
                   sem, ctr, failedBuilds, printed, summary, images, task>>

\* ------------------------------------------------------------ filepath.Walk
\* The walk callback (lines 186-194): it dereferences info without looking at
\* err, so it panics when info is nil, and returns nil in every other case.
WalkFn(infoIsNil) == IF infoIsNil THEN "panic" ELSE "nil"

\* filepath.Walk with that callback.  lstatFails: Lstat of the root or of an
\* entry fails, and Walk calls the callback with a nil info.  unreadable: the
\* directories whose listing fails; Walk calls the callback with their info
\* and the error, the callback returns nil, and their content is skipped.
Walk(lstatFails, unreadable) ==
    IF WalkFn(lstatFails) = "panic"
    THEN [outcome |-> "panic", walkErr |-> FALSE, found |-> <<>>]
    ELSE [outcome |-> "returned", walkErr |-> WalkFn(FALSE) # "nil",
          found |-> SortedSeq(Dirs \ unreadable)]

\* buildImages, lines 185-198.
BuildImagesWalk ==
    /\ pc = "walk"
    /\ \E lstatFails \in BOOLEAN, unreadable \in SUBSET Dirs :
        LET w == Walk(lstatFails, unreadable) IN
        IF w.outcome = "panic" \/ w.walkErr
        THEN /\ pc' = "exited"
             /\ exitStatus' = 2
             /\ dockerfiles' = dockerfiles
        ELSE /\ pc' = "loop"
             /\ exitStatus' = exitStatus
             /\ dockerfiles' = w.found
    /\ UNCHANGED <<parallelBuilds, flagRebuild, nDirs, files, cmd, ret, cacheDir,
                   idx, sem, ctr, failedBuilds, printed, summary, images, task>>

\* ------------------------------------------------------------ the for loop
\* The Dockerfile of the current iteration.
Current == dockerfiles[idx]

\* The rebuild filter without its continue: a Dockerfile without buildlog.fail
\* goes on to sem.Acquire as well.
RebuildFilterNoSkip ==
    /\ pc = "loop"
    /\ idx <= Len(dockerfiles)
    /\ flagRebuild
    /\ \E found \in BOOLEAN :
        files' = [files EXCEPT ![Current].buildlogfail = IF found THEN Removed ELSE Absent]
    /\ idx' = idx
    /\ pc' = "acquire"
    /\ UNCHANGED <<parallelBuilds, flagRebuild, nDirs, cmd, ret, cacheDir,
                   exitStatus, dockerfiles, sem, ctr, failedBuilds, printed, summary,
                   images, task>>

\* Lines 204-217 with -rebuild: os.Stat of buildlog.fail (found: the file
\* exists).  A Dockerfile without buildlog.fail is skipped (continue); the
\* buildlog.fail of the others is removed and the iteration goes on to
\* sem.Acquire.
RebuildFilter ==
    /\ pc = "loop"
    /\ idx <= Len(dockerfiles)
    /\ flagRebuild
    /\ \E found \in BOOLEAN :
        IF ~found
        THEN /\ idx' = idx + 1
             /\ pc' = "loop"
             /\ files' = [files EXCEPT ![Current].buildlogfail = Absent]
        ELSE /\ idx' = idx
             /\ pc' = "acquire"
             /\ files' = [files EXCEPT ![Current].buildlogfail = Removed]
    /\ UNCHANGED <<parallelBuilds, flagRebuild, nDirs, cmd, ret, cacheDir,
                   exitStatus, dockerfiles, sem, ctr, failedBuilds, printed, summary,
                   images, task>>

\* The main goroutine is at sem.Acquire (line 219): after the rebuild filter,
\* or straight from the loop head without -rebuild.
AtAcquire ==
    \/ pc = "acquire"
    \/ pc = "loop" /\ idx <= Len(dockerfiles) /\ ~flagRebuild

\* An acquire that lets one goroutine too many through.
CanAcquireOffByOne == parallelBuilds - sem >= 0

\* semaphore.Weighted.Acquire(ctx, 1) can take a slot: size - cur >= n (no
\* other waiter exists, only the main goroutine acquires).
CanAcquire == parallelBuilds - sem >= 1

\* An acquire that returns an error at once when the semaphore's size is
\* smaller than the request, instead of waiting for the context: the error
\* branch (lines 220-223) writes the error to buildlog and continues.
AcquireAndGoFailsFast ==
    /\ AtAcquire
    /\ IF parallelBuilds < 1
       THEN /\ files' = [files EXCEPT ![Current].buildlog = Written]
            /\ UNCHANGED <<sem, task>>
       ELSE /\ CanAcquire
            /\ sem' = sem + 1
            /\ task' = [task EXCEPT ![Current].pc = "ctr"]
            /\ files' = files
    /\ idx' = idx + 1
    /\ pc' = "loop"
    /\ UNCHANGED <<parallelBuilds, flagRebuild, nDirs, cmd, ret, cacheDir,
                   exitStatus, dockerfiles, ctr, failedBuilds, printed, summary, images>>

\* Lines 219-226: sem.Acquire(ctx, 1) returns nil once a slot is free, and the
\* go statement starts the goroutine of this Dockerfile.  ctx is
\* context.Background(), which is never done, so Acquire blocks while no slot
\* is free and never returns an error.
AcquireAndGo ==
    /\ AtAcquire
    /\ CanAcquire
    /\ sem' = sem + 1
    /\ task' = [task EXCEPT ![Current].pc = "ctr"]
    /\ idx' = idx + 1
    /\ pc' = "loop"
    /\ UNCHANGED <<parallelBuilds, flagRebuild, nDirs, files, cmd, ret, cacheDir,
                   exitStatus, dockerfiles, ctr, failedBuilds, printed, summary, images>>

\* The loop is over; lines 260-265: failedBuilds is read and, when it is not
\* empty, printed.
Report ==
    /\ pc = "loop"
    /\ idx > Len(dockerfiles)
    /\ printed' = TRUE
    /\ summary' = failedBuilds
    /\ pc' = "return"
    /\ UNCHANGED <<parallelBuilds, flagRebuild, nDirs, files, cmd, ret, cacheDir,
                   exitStatus, dockerfiles, idx, sem, ctr, failedBuilds, images, task>>

\* buildImages returning an error when some build failed.
ReturnErrorOnFailedBuilds ==
    /\ pc = "return"
    /\ pc' = "exited"
    /\ exitStatus' = IF Len(failedBuilds) > 0 THEN 2 ELSE 0
    /\ UNCHANGED <<parallelBuilds, flagRebuild, nDirs, files, cmd, ret, cacheDir,
                   dockerfiles, idx, sem, ctr, failedBuilds, printed, summary, images,
                   task>>

\* Line 267 and main lines 38-41: buildImages returns nil, main returns, and
\* the process exits with status 0; its goroutines end with it.
ReturnAndExit ==
    /\ pc = "return"
    /\ pc' = "exited"
    /\ exitStatus' = 0
    /\ UNCHANGED <<parallelBuilds, flagRebuild, nDirs, files, cmd, ret, cacheDir,
                   dockerfiles, idx, sem, ctr, failedBuilds, printed, summary, images,
                   task>>

\* ------------------------------------------------------------ the goroutines
\* A goroutine takes steps only while the process runs.
Running == pc # "exited"

\* A sequence number read from the counter without storing the increment
\* (ctr.Load() + 1 in place of ctr.Add(1)).
TaskCtrNotStored(d) ==
    /\ Running
    /\ task[d].pc = "ctr"
    /\ ctr' = ctr
    /\ task' = [task EXCEPT ![d].pc = "build", ![d].localCtr = ctr + 1]
    /\ UNCHANGED <<parallelBuilds, flagRebuild, nDirs, files, pc, cmd, ret,
                   cacheDir, exitStatus, dockerfiles, idx, sem, failedBuilds, printed,
                   summary, images>>

\* Line 228: localCtr := ctr.Add(1) (and imageName, prefix, cmd: lines 229-234).
TaskCtr(d) ==
    /\ Running
    /\ task[d].pc = "ctr"
    /\ ctr' = ctr + 1
    /\ task' = [task EXCEPT ![d].pc = "build", ![d].localCtr = ctr + 1]
    /\ UNCHANGED <<parallelBuilds, flagRebuild, nDirs, files, pc, cmd, ret,
                   cacheDir, exitStatus, dockerfiles, idx, sem, failedBuilds, printed,
                   summary, images>>

\* A build whose failure does not end the goroutine early: the failed build
\* goes on to the plain log and the image deletion like a successful one
\* (the return at lines 249-251 and the ".fail" suffix missing).
TaskBuildNoEarlyReturn(d) ==
    /\ Running
    /\ task[d].pc = "build"
    /\ \E ok \in BOOLEAN :
        IF ok
        THEN /\ images' = images \cup {ImageName(task[d].localCtr)}
             /\ task' = [task EXCEPT ![d].pc = "write", ![d].buildErr = FALSE]
        ELSE /\ images' = images
             /\ task' = [task EXCEPT ![d].pc = "rmi", ![d].buildErr = TRUE]
    /\ UNCHANGED <<parallelBuilds, flagRebuild, nDirs, files, pc, cmd, ret,
                   cacheDir, exitStatus, dockerfiles, idx, sem, ctr, failedBuilds,
                   printed, summary>>

\* Lines 236-243: podman build ends; on success the image test-<localCtr>
\* exists, on failure logpath gets its ".fail" suffix.
TaskBuild(d) ==
    /\ Running
    /\ task[d].pc = "build"
    /\ \E ok \in BOOLEAN :
        IF ok
        THEN /\ images' = images \cup {ImageName(task[d].localCtr)}
             /\ task' = [task EXCEPT ![d].pc = "write", ![d].buildErr = FALSE]
        ELSE /\ images' = images
             /\ task' = [task EXCEPT ![d].pc = "append", ![d].buildErr = TRUE]
    /\ UNCHANGED <<parallelBuilds, flagRebuild, nDirs, files, pc, cmd, ret,
                   cacheDir, exitStatus, dockerfiles, idx, sem, ctr, failedBuilds,
                   printed, summary>>

\* Line 240, first half: append reads the slice failedBuilds.  No lock is held.
TaskAppendRead(d) ==
    /\ Running
    /\ task[d].pc = "append"
    /\ task' = [task EXCEPT ![d].pc = "store", ![d].hdr = failedBuilds]
    /\ UNCHANGED <<parallelBuilds, flagRebuild, nDirs, files, pc, cmd, ret,
                   cacheDir, exitStatus, dockerfiles, idx, sem, ctr, failedBuilds,
                   printed, summary, images>>

\* Line 240, second half: the slice read before, with this Dockerfile
\* appended, is stored to failedBuilds.
TaskAppendStore(d) ==
    /\ Running
    /\ task[d].pc = "store"
    /\ failedBuilds' = Append(task[d].hdr, d)
    /\ task' = [task EXCEPT ![d].pc = "write", ![d].hdr = <<>>]
    /\ UNCHANGED <<parallelBuilds, flagRebuild, nDirs, files, pc, cmd, ret,
                   cacheDir, exitStatus, dockerfiles, idx, sem, ctr, printed, summary,
                   images>>

\* Lines 245-251: os.WriteFile(logpath, ...), then return on a failed build.
TaskWriteLog(d) ==
    /\ Running
    /\ task[d].pc = "write"
    /\ IF task[d].buildErr
       THEN /\ files' = [files EXCEPT ![d].buildlogfail = Written]
            /\ task' = [task EXCEPT ![d].pc = "release"]
       ELSE /\ files' = [files EXCEPT ![d].buildlog = Written]
            /\ task' = [task EXCEPT ![d].pc = "rmi"]
    /\ UNCHANGED <<parallelBuilds, flagRebuild, nDirs, pc, cmd, ret, cacheDir,
                   exitStatus, dockerfiles, idx, sem, ctr, failedBuilds, printed,
                   summary, images>>

\* podman rmi of the image named after the counter's current value instead of
\* the goroutine's own sequence number.
TaskRmiCurrentCtr(d) ==
    /\ Running
    /\ task[d].pc = "rmi"
    /\ \E ok \in BOOLEAN :
        /\ images' = IF ok THEN images \ {ImageName(ctr)} ELSE images
        /\ task' = [task EXCEPT ![d].pc = "release",
                                ![d].rmi = IF ok THEN "ok" ELSE "failed"]
    /\ UNCHANGED <<parallelBuilds, flagRebuild, nDirs, files, pc, cmd, ret,
                   cacheDir, exitStatus, dockerfiles, idx, sem, ctr, failedBuilds,
                   printed, summary>>

\* Lines 253-256: podman rmi imageName; a failure is logged only.
TaskRmi(d) ==
    /\ Running
    /\ task[d].pc = "rmi"
    /\ \E ok \in BOOLEAN :
        /\ images' = IF ok THEN images \ {ImageName(task[d].localCtr)} ELSE images
        /\ task' = [task EXCEPT ![d].pc = "release",
                                ![d].rmi = IF ok THEN "ok" ELSE "failed"]
    /\ UNCHANGED <<parallelBuilds, flagRebuild, nDirs, files, pc, cmd, ret,
                   cacheDir, exitStatus, dockerfiles, idx, sem, ctr, failedBuilds,
                   printed, summary>>

\* A release that can run before the image deletion: sem.Release(1) called
\* after the log write instead of being deferred.
TaskReleaseBeforeRmi(d) ==
    /\ Running
    /\ task[d].pc \in {"rmi", "release"}
    /\ sem' = sem - 1
    /\ task' = [task EXCEPT ![d].pc = "done"]
    /\ UNCHANGED <<parallelBuilds, flagRebuild, nDirs, files, pc, cmd, ret,
                   cacheDir, exitStatus, dockerfiles, idx, ctr, failedBuilds, printed,
                   summary, images>>

\* Line 227: the deferred sem.Release(1) runs when the goroutine returns.
TaskRelease(d) ==
    /\ Running
    /\ task[d].pc = "release"
    /\ sem' = sem - 1
    /\ task' = [task EXCEPT ![d].pc = "done"]
    /\ UNCHANGED <<parallelBuilds, flagRebuild, nDirs, files, pc, cmd, ret,
                   cacheDir, exitStatus, dockerfiles, idx, ctr, failedBuilds, printed,
                   summary, images>>

Next ==
    \/ CreateDNFCacheRun
    \/ BuildImagesCache
    \/ BuildImagesWalk
    \/ RebuildFilter
    \/ AcquireAndGo
    \/ Report
    \/ ReturnAndExit
    \/ \E d \in Dirs : TaskCtr(d)
    \/ \E d \in Dirs : TaskBuild(d)
    \/ \E d \in Dirs : TaskAppendRead(d)
    \/ \E d \in Dirs : TaskAppendStore(d)
    \/ \E d \in Dirs : TaskWriteLog(d)
    \/ \E d \in Dirs : TaskRmi(d)
    \/ \E d \in Dirs : TaskRelease(d)

Spec == Init /\ [][Next]_vars

\* ------------------------------------------------------------ fair scheduling
\* The steps of the main goroutine and of the goroutine of directory d.
Coordinator ==
    \/ CreateDNFCacheRun
    \/ BuildImagesCache
    \/ BuildImagesWalk
    \/ RebuildFilter
    \/ AcquireAndGo
    \/ Report
    \/ ReturnAndExit

TaskStep(d) ==
    \/ TaskCtr(d)
    \/ TaskBuild(d)
    \/ TaskAppendRead(d)
    \/ TaskAppendStore(d)
    \/ TaskWriteLog(d)
    \/ TaskRmi(d)
    \/ TaskRelease(d)

\* Every goroutine that can take a step eventually takes it (the Go scheduler
\* runs every runnable goroutine), and every external command ends.
Fairness ==
    /\ WF_vars(Coordinator)
    /\ \A d \in 1..MaxCtx : WF_vars(d \in Dirs /\ TaskStep(d))

SpecFair == Init /\ [][Next]_vars /\ Fairness

\* ------------------------------------------------ a failing sem.Acquire
\* Lines 219-224, the branch taken when sem.Acquire returns an error: the
\* error is written to logpath, which is buildlog here, and the loop
\* continues.  No goroutine is started and no slot is taken.  With
\* context.Background() Acquire returns no error, so the branch is not part of
\* Next; SpecAcquireErr is the program with a context that can be done.
AcquireFails ==
    /\ AtAcquire
    /\ files' = [files EXCEPT ![Current].buildlog = Written]
    /\ idx' = idx + 1
    /\ pc' = "loop"
    /\ UNCHANGED <<parallelBuilds, flagRebuild, nDirs, cmd, ret, cacheDir, exitStatus,
                   dockerfiles, sem, ctr, failedBuilds, printed, summary, images, task>>

NextAcquireErr ==
    \/ Next
    \/ AcquireFails

SpecAcquireErr == Init /\ [][NextAcquireErr]_vars

\* ================================================================ properties
\* The goroutine of directory d was started.
Launched(d) == task[d].pc # "none"

\* The goroutine of directory d returned (its slot is released).
Finished(d) == task[d].pc = "done"

\* The goroutines that hold a slot: started and not yet returned.
Holding == {d \in Dirs : Launched(d) /\ ~Finished(d)}

\* The Dockerfiles filepath.Walk collected.
Discovered == Range(dockerfiles)

\* No build was started: no slot taken, no goroutine, no log written, no
\* sequence number drawn, no image built.
NothingStarted ==
    /\ sem = 0
    /\ ctr = 0
    /\ images = {}
    /\ failedBuilds = <<>>
    /\ \A d \in Dirs :
        /\ task[d] = NoTask
        /\ files[d] = [buildlog |-> Untouched, buildlogfail |-> Untouched]

\* The run ended normally: buildImages returned nil.
ExitedOK == pc = "exited" /\ exitStatus = 0

\* C1: with -j N, N >= 1, at most N goroutines hold a slot at any time, and
\* the semaphore counts exactly the goroutines that hold one.
C1_SlotsBounded ==
    parallelBuilds >= 1 =>
        /\ Cardinality(Holding) <= parallelBuilds
        /\ sem = Cardinality(Holding)

\* C1, witness: every slot is taken and the main goroutine waits in
\* sem.Acquire for the next Dockerfile.
C1_Witness ==
    /\ parallelBuilds >= 1
    /\ AtAcquire
    /\ Cardinality(Holding) = parallelBuilds

\* C2: the report step runs only after every started goroutine has returned.
C2_ReportAfterAllFinished ==
    printed => \A d \in Dirs : Launched(d) => Finished(d)

\* C3: failedBuilds is accessed under mutual exclusion: no two goroutines are
\* between the read and the store of their append at the same time, and once
\* every goroutine has returned, failedBuilds holds every Dockerfile whose
\* build failed.
C3_LedgerExclusive ==
    /\ Cardinality({d \in Dirs : task[d].pc = "store"}) <= 1
    /\ (\A d \in Dirs : Launched(d) => Finished(d)) =>
            \A d \in Dirs : task[d].buildErr => d \in Range(failedBuilds)

\* C4: after a run that printed its summary, the summary lists exactly the
\* Dockerfiles built in this run whose log is buildlog.fail.
C4_SummaryIsFailLogs ==
    (ExitedOK /\ printed) =>
        Range(summary) = {d \in Discovered : Launched(d) /\ files[d].buildlogfail = Written}

\* C5: after the run, every discovered directory whose build ran to its end
\* holds exactly one of buildlog and buildlog.fail, whatever it held before
\* the run, and that log is the one this run wrote.
C5_ExactlyOneLog ==
    ExitedOK =>
        \A d \in Discovered :
            Finished(d) =>
                \A old \in OldOf(d) :
                    /\ Exists(d, "buildlog", old) # Exists(d, "buildlogfail", old)
                    /\ \/ files[d].buildlog = Written /\ ~Exists(d, "buildlogfail", old)
                       \/ files[d].buildlogfail = Written /\ ~Exists(d, "buildlog", old)

\* C6: without -rebuild and with -j N, N >= 1, when the run has returned the
\* build of every discovered Dockerfile has run to its end.
C6_EveryBuildRan ==
    (ExitedOK /\ ~flagRebuild /\ parallelBuilds >= 1) =>
        \A d \in Discovered : Finished(d)

\* C7: under -rebuild, a Dockerfile the loop has passed was launched exactly
\* when os.Stat found its buildlog.fail (which the loop then removed and only
\* its own goroutine can have written again); a skipped one has no goroutine
\* and no slot, and neither of its log files was written or removed.
C7_RebuildSelectsFailed ==
    flagRebuild =>
        /\ \A k \in 1..Len(dockerfiles) :
            k < idx =>
                (Launched(dockerfiles[k])
                    <=> files[dockerfiles[k]].buildlogfail \in {Removed, Written})
        /\ \A d \in Dirs :
            ~Launched(d) =>
                /\ task[d] = NoTask
                /\ files[d].buildlog = Untouched
                /\ files[d].buildlogfail = Removed => (pc = "acquire" /\ d = Current)
                /\ files[d].buildlogfail # Written
        /\ sem = Cardinality(Holding)

\* C7, witness: under -rebuild the loop has passed a Dockerfile it skipped
\* and one it launched, whose build has ended.
C7_Witness ==
    /\ flagRebuild
    /\ \E j, k \in 1..Len(dockerfiles) :
        /\ j < idx /\ k < idx
        /\ ~Launched(dockerfiles[j])
        /\ files[dockerfiles[j]].buildlogfail = Absent
        /\ Finished(dockerfiles[k])

C9_BuildFailureNotFatal ==
    /\ (\E d \in Dirs : Launched(d)) => exitStatus \in {-1, 0}
    /\ ExitedOK =>
        \A d \in Discovered :
            Launched(d) \/ (flagRebuild /\ files[d].buildlogfail = Absent)

\* C9, witness: with -j 1 the first build failed and returned, the second
\* Dockerfile was launched after it, and the run ended with status 0.
C9_Witness ==
    /\ ExitedOK
    /\ parallelBuilds = 1
    /\ Len(dockerfiles) >= 2
    /\ task[dockerfiles[1]].buildErr
    /\ Finished(dockerfiles[1])
    /\ Launched(dockerfiles[2])

\* C10: when the warm-up command ran, createDNFCache returns the cache
\* directory and no error exactly when the command exited with status 0 or
\* with status 100, and otherwise an error and no path; and after an error
\* the run is over with a non-zero status and nothing started.
C10_CacheExitStatus ==
    /\ (pc = "cacheReturned" /\ cmd.err # "notrun") =>
        /\ (~ret.err /\ ret.cacheDir # "")
              <=> (cmd.err = "nil" \/ (cmd.err = "ExitError" /\ cmd.code = 100))
        /\ ret.err => ret.cacheDir = ""
    /\ (pc \notin {"createDNFCache", "cacheReturned"} /\ cacheDir = "") =>
        (pc = "exited" /\ exitStatus # 0 /\ NothingStarted)

\* C10, witness: the warm-up command exited with status 100 and
\* createDNFCache returned the cache directory.
C10_Witness ==
    /\ pc = "cacheReturned"
    /\ cmd.err = "ExitError"
    /\ cmd.code = 100
    /\ ~ret.err
    /\ ret.cacheDir # ""

\* The main goroutine is past the walk and the run was not aborted.
WalkReturned == pc \in {"loop", "acquire", "return"} \/ ExitedOK

\* C11: the walk fails whenever a directory of the tree cannot be read, so a
\* run that goes on after the walk has collected every Dockerfile of the tree.
C11_WalkFailsOnInaccessible ==
    WalkReturned => Discovered = Dirs

\* The goroutine of directory d drew its sequence number.
Numbered(d) == task[d].localCtr # 0

\* C13: a goroutine that has released its slot has written its log and, after
\* a successful build, has run its image deletion; a slot is held exactly by
\* the goroutines started and not yet returned.
C13_ReleaseAfterLogAndCleanup ==
    /\ \A d \in Dirs :
        Finished(d) =>
            IF task[d].buildErr
            THEN files[d].buildlogfail = Written
            ELSE files[d].buildlog = Written /\ task[d].rmi # "no"
    /\ sem = Cardinality(Holding)

\* C13, witness: one goroutine returned after a failed build and one after a
\* successful build.
C13_Witness ==
    \E d, e \in Dirs :
        /\ Finished(d) /\ task[d].buildErr
        /\ Finished(e) /\ ~task[e].buildErr

\* C14: when a goroutine whose build succeeded has returned, the image it
\* built does not exist any more.
C14_ImageGone ==
    \A d \in Dirs :
        (Finished(d) /\ ~task[d].buildErr) => ImageName(task[d].localCtr) \notin images

\* C14 as amended: when a goroutine whose build succeeded has returned, the
\* deletion of its image was attempted, and the image does not exist any more
\* unless that deletion failed.
C14_ImageGoneUnlessRmiFailed ==
    \A d \in Dirs :
        (Finished(d) /\ ~task[d].buildErr) =>
            /\ task[d].rmi # "no"
            /\ task[d].rmi = "ok" => ImageName(task[d].localCtr) \notin images

\* C14, witness: two goroutines built their images at the same time and one
\* of them has returned after a successful deletion.
C14_Witness ==
    \E d, e \in Dirs :
        /\ d # e
        /\ Finished(d) /\ ~task[d].buildErr /\ task[d].rmi = "ok"
        /\ ImageName(task[e].localCtr) \in images

\* C15: a goroutine whose build failed never runs the image deletion; one
\* that ran it had a successful build and had written buildlog before, and
\* whatever the deletion's outcome its directory has no buildlog.fail of this
\* run and is neither in failedBuilds nor in the summary.
C15_CleanupKeepsOutcome ==
    \A d \in Dirs :
        /\ task[d].buildErr => (task[d].rmi = "no" /\ task[d].pc # "rmi")
        /\ (task[d].rmi # "no" \/ task[d].pc = "rmi") =>
            /\ ~task[d].buildErr
            /\ files[d].buildlog = Written
            /\ files[d].buildlogfail # Written
            /\ d \notin Range(failedBuilds)
            /\ d \notin Range(summary)

\* C15, witness: the image deletion failed and the goroutine returned.
C15_Witness ==
    \E d \in Dirs : Finished(d) /\ task[d].rmi = "failed"

\* C16: no two goroutines have the same sequence number, the image name is
\* determined by the sequence number, and no two goroutines have the same
\* image name.
C16_UniqueSequenceNumbers ==
    \A d, e \in Dirs :
        (d # e /\ Numbered(d) /\ Numbered(e)) =>
            /\ task[d].localCtr # task[e].localCtr
            /\ ImageName(task[d].localCtr) # ImageName(task[e].localCtr)

\* C16, witness: two goroutines drew their sequence numbers while both held
\* a slot.
C16_Witness ==
    \E d, e \in Holding : d # e /\ Numbered(d) /\ Numbered(e)

\* The loop has passed directory d.
Passed(d) == \E k \in 1..Len(dockerfiles) : dockerfiles[k] = d /\ k < idx

\* The loop has passed directory d without starting a goroutine although the
\* rebuild filter did not skip it: sem.Acquire returned an error for it.
AcquireFailed(d) == Passed(d) /\ ~Launched(d) /\ files[d].buildlogfail # Absent

C17_SequenceFollowsLaunchOrder ==
    \A j, k \in 1..Len(dockerfiles) :
        (j < k /\ Numbered(dockerfiles[j]) /\ Numbered(dockerfiles[k])) =>
            task[dockerfiles[j]].localCtr < task[dockerfiles[k]].localCtr

\* C18: a step of the goroutine of directory d leaves every other directory
\* e alone: e's log files, e's goroutine and build outcome, e's image, and
\* e's entry in failedBuilds.
C18_TaskTouchesOnlyItsOwn ==
    [][\A d \in Dirs :
          (Launched(d) /\ task'[d] # task[d]) =>
              \A e \in Dirs \ {d} :
                  /\ files'[e] = files[e]
                  /\ task'[e] = task[e]
                  /\ ImageName(task[e].localCtr) \in images
                        => ImageName(task[e].localCtr) \in images'
                  /\ e \in Range(failedBuilds) => e \in Range(failedBuilds')]_vars

\* The Dockerfiles the loop selects: all of them, or under -rebuild those
\* whose buildlog.fail os.Stat did not find missing.
Selected(d) == ~flagRebuild \/ files[d].buildlogfail # Absent

\* The run is over, and after a normal run every selected Dockerfile was
\* launched and every launched build ran to its end, with its log written.
AllDone ==
    /\ pc = "exited"
    /\ exitStatus = 0 =>
        \A d \in Discovered :
            /\ Selected(d) => Launched(d)
            /\ Launched(d) =>
                /\ Finished(d)
                /\ files[d].buildlog = Written \/ files[d].buildlogfail = Written

\* C19: with -j N, N >= 1, under fair scheduling the run terminates, and it
\* terminates with every selected Dockerfile launched and every launched
\* build run to its end.
C19_EverythingCompletes ==
    parallelBuilds >= 1 => <>AllDone

\* C20: with -j N, N <= 0, no goroutine is ever started and no log is ever
\* written, and the loop never gets past a selected Dockerfile: the summary
\* is printed and the run ends only when no Dockerfile was selected.
C20_NoSlotBlocksForever ==
    parallelBuilds <= 0 =>
        /\ sem = 0
        /\ ctr = 0
        /\ \A d \in Dirs :
            /\ ~Launched(d)
            /\ files[d].buildlog # Written
            /\ files[d].buildlogfail # Written
        /\ \A d \in Dirs : Passed(d) => (flagRebuild /\ files[d].buildlogfail = Absent)
        /\ (printed \/ pc = "return" \/ ExitedOK) =>
            \A d \in Discovered : flagRebuild /\ files[d].buildlogfail = Absent

\* C20, witness: with -j N, N <= 0, the main goroutine is in sem.Acquire for
\* the first selected Dockerfile of a tree with several.
C20_Witness ==
    /\ parallelBuilds <= 0
    /\ AtAcquire
    /\ Len(dockerfiles) = MaxCtx

====
